---------------------------- MODULE Spec2Model ----------------------------
(***************************************************************************)
(* Touch bring-up and polling of the CYD handle (src/cydc.py).             *)
(*                                                                         *)
(* CYD.__init__ (lines 157-172) drives the CST820's interrupt and reset    *)
(* lines through a timed sequence and then writes the sleep-disable        *)
(* register over I2C.  CYD.touches (lines 222-240) reads 5 or 9 bytes from *)
(* register 0x02 and unpacks them big-endian.                              *)
(*                                                                         *)
(* The handle keeps no touch state, so the model's variables are the       *)
(* position in __init__ and what an observer of the pins, the bus and the  *)
(* caller sees: the level/hold trace, the bus transactions issued, and the *)
(* history of touches() calls with the bytes the bus returned and the      *)
(* value (or exception) handed back.                                       *)
(***************************************************************************)
EXTENDS Integers, Sequences, FiniteSets, TLC

VARIABLES
    phase,      \* "init": inside __init__; "ready": handle returned; "raised": __init__ raised
    ip,         \* index in TouchInit of the next statement of __init__
    pins,       \* level sets and sleeps performed so far, in order
    busLog,     \* I2C transactions issued to the touch controller, in order
    calls,      \* completed touches() calls: [multitouch, reply, ret]
    exc,        \* exception that left __init__, "none" when there is none
    fault,      \* index of the __init__ statement whose driver call failed, 0 when none
    regs,       \* the controller's registers 0x02..0x0A (finger count, x1, y1, x2, y2)
    rgb_pmw,    \* self._rgb_pmw
    sd_ready,   \* self._sd_ready
    sd_mounted, \* self._sd_mounted
    attrs,      \* names of the attributes __init__ has assigned on the handle
    led,        \* <<r, g, b>>: pin value (static mode) or PWM duty (dynamic mode)
    dupterm,    \* what os.dupterm is attached to: "none" or "terminal"
    fx,         \* driver and os calls made by the peripheral methods, in order
    last,       \* the last method call: [op, exc, from, n], its calls are fx[from..]
    frame_buf,  \* Terminal.frame_buf: the stored lines
    text,       \* Terminal.text: the pending line
    wr          \* the last Terminal.write: [n, len, ret, exc, seen, lines, dropped]

touchVars == <<phase, ip, pins, busLog, calls, exc, fault, regs>>
periphVars == <<rgb_pmw, sd_ready, sd_mounted, attrs, led, dupterm, fx, last>>
termVars == <<frame_buf, text, wr>>
vars == <<touchVars, periphVars, termVars>>

-----------------------------------------------------------------------------
(* Bounds *)

\* Largest number of touches() calls in one behaviour of Spec.
MaxPolls == 2

\* Bytes the controller may hold in a coordinate register: every combination
\* of them in SpecDecode, one high-byte and one low-byte value in Spec.
ByteVals == {0, 100, 255}
WireVals == {0, 255}

\* Values of the finger-count register, in range (0..2) and out of range.
FingerBytes == {0, 1, 2, 3, 255}

-----------------------------------------------------------------------------
(* Protocol constants *)

TOUCH_ADDR == 21            \* 0x15
SLEEP_REG == 254            \* 0xFE
SLEEP_OFF == 255            \* b'\xff'
TOUCH_REG == 2              \* 0x02
SINGLE_LEN == 5
MULTI_LEN == 9

\* time.sleep() arguments, in milliseconds (the source gives seconds).
INT_HIGH_MS == 1            \* time.sleep(0.001)
INT_LOW_MS == 1             \* time.sleep(0.001)
RST_LOW_MS == 10            \* time.sleep(0.01)
RST_HIGH_MS == 300          \* time.sleep(0.3)

-----------------------------------------------------------------------------
(* __init__, lines 157-172: the statements of the touch section, in order. *)

Stmt(op, pin, arg) == [op |-> op, pin |-> pin, arg |-> arg]

\* The touch section as it was before the sleep-disable write was added.
TouchInitNoWrite ==
    << Stmt("SoftI2C", "", 400000), Stmt("Pin", "int", 21),
       Stmt("on", "int", 0), Stmt("sleep", "", INT_HIGH_MS),
       Stmt("off", "int", 0), Stmt("sleep", "", INT_LOW_MS),
       Stmt("Pin", "rst", 25),
       Stmt("off", "rst", 0), Stmt("sleep", "", RST_LOW_MS),
       Stmt("on", "rst", 0), Stmt("sleep", "", RST_HIGH_MS) >>

\* The touch section with time.sleep(0.03) after the reset line is released.
TouchInitShortHold ==
    << Stmt("SoftI2C", "", 400000), Stmt("Pin", "int", 21),
       Stmt("on", "int", 0), Stmt("sleep", "", INT_HIGH_MS),
       Stmt("off", "int", 0), Stmt("sleep", "", INT_LOW_MS),
       Stmt("Pin", "rst", 25),
       Stmt("off", "rst", 0), Stmt("sleep", "", RST_LOW_MS),
       Stmt("on", "rst", 0), Stmt("sleep", "", 30),
       Stmt("writeto_mem", "", 0) >>

\* The touch section with the write issued as soon as the bus exists.
TouchInitWriteFirst ==
    << Stmt("SoftI2C", "", 400000), Stmt("writeto_mem", "", 0),
       Stmt("Pin", "int", 21),
       Stmt("on", "int", 0), Stmt("sleep", "", INT_HIGH_MS),
       Stmt("off", "int", 0), Stmt("sleep", "", INT_LOW_MS),
       Stmt("Pin", "rst", 25),
       Stmt("off", "rst", 0), Stmt("sleep", "", RST_LOW_MS),
       Stmt("on", "rst", 0), Stmt("sleep", "", RST_HIGH_MS) >>

TouchInit ==
    << Stmt("SoftI2C", "", 400000),        \* 158
       Stmt("Pin", "int", 21),             \* 160
       Stmt("on", "int", 0),               \* 161
       Stmt("sleep", "", INT_HIGH_MS),     \* 162
       Stmt("off", "int", 0),              \* 163
       Stmt("sleep", "", INT_LOW_MS),      \* 164
       Stmt("Pin", "rst", 25),             \* 166
       Stmt("off", "rst", 0),              \* 167
       Stmt("sleep", "", RST_LOW_MS),      \* 168
       Stmt("on", "rst", 0),               \* 169
       Stmt("sleep", "", RST_HIGH_MS),     \* 170
       Stmt("writeto_mem", "", 0) >>       \* 172

\* Observations.
Level(pin, v) == [ev |-> "level", pin |-> pin, v |-> v]
Hold(ms) == [ev |-> "sleep", pin |-> "", v |-> ms]
Txn(op, addr, reg, data, n) == [op |-> op, addr |-> addr, reg |-> reg, data |-> data, n |-> n]

\* self._touch.writeto_mem(0x15, 0xFE, b'\xff')
SleepDisableTxn == Txn("write", TOUCH_ADDR, SLEEP_REG, <<SLEEP_OFF>>, 1)

\* What a statement adds to the pin trace and to the bus log when it succeeds.
\* Pin(n, Pin.OUT) gives no value argument, so it sets no level.
PinEvents(s) ==
    CASE s.op = "on" -> <<Level(s.pin, 1)>>
      [] s.op = "off" -> <<Level(s.pin, 0)>>
      [] s.op = "sleep" -> <<Hold(s.arg)>>
      [] OTHER -> <<>>

BusEvents(s) == IF s.op = "writeto_mem" THEN <<SleepDisableTxn>> ELSE <<>>

\* Statements that call into a driver and can therefore raise.
CanRaise(s) == s.op \in {"SoftI2C", "Pin", "on", "off", "writeto_mem"}

RaisedBy(s) == IF s.op \in {"SoftI2C", "writeto_mem"} THEN "OSError" ELSE "PinError"

\* Terminal.__init__, lines 478 and 480.
TermFresh ==
    /\ frame_buf = <<>>
    /\ text = <<>>
    /\ wr = [n |-> 0, len |-> 0, ret |-> 0, exc |-> "none", seen |-> 0,
             lines |-> 0, dropped |-> FALSE]

\* Attributes assigned by __init__, lines 148-210 (speaker_pwm and
\* speaker_gain are not among them: lines 193-195 are comments).
InitAttrs(sd_ok) ==
    {"display", "tft_bl", "_touch", "_int_touch", "_rst_touch", "_button_boot",
     "_ldr", "_rgb_pmw", "RGBr", "RGBg", "RGBb", "dac", "_sd_ready", "_sd_mounted"}
        \cup (IF sd_ok THEN {"sd"} ELSE {})

\* Lines 181-189: value=1 on the three pins, or duty=1023 on the three PWMs.
InitLed(pmw) == IF pmw = FALSE THEN <<1, 1, 1>> ELSE <<1023, 1023, 1023>>

\* The peripheral fields after CYD(rgb_pmw=pmw, sd_enabled=sd_enabled), where
\* sdcard_ok tells whether SDCard(slot=2) succeeded (lines 181-210).
Constructed(pmw, sd_enabled, sdcard_ok) ==
    /\ rgb_pmw = pmw
    /\ sd_ready = (sd_enabled = TRUE /\ sdcard_ok)
    /\ sd_mounted = FALSE
    /\ attrs = InitAttrs(sd_enabled = TRUE /\ sdcard_ok)
    /\ led = InitLed(pmw)
    /\ dupterm = "none"
    /\ fx = <<>>
    /\ last = [op |-> "__init__", exc |-> "none", from |-> 1, n |-> 0]

\* CYD() with its default arguments.
PeriphDefault == Constructed(FALSE, FALSE, FALSE)

\* Register contents before the controller has reported anything.
PowerOnRegs == [i \in 1..MULTI_LEN |-> 0]

Init ==
    /\ phase = "init"
    /\ ip = 1
    /\ pins = <<>>
    /\ busLog = <<>>
    /\ calls = <<>>
    /\ exc = "none"
    /\ fault = 0
    /\ regs = PowerOnRegs
    /\ PeriphDefault
    /\ TermFresh

\* __init__ with each driver call wrapped in `try: ... except: pass`.
InitStepSwallow ==
    /\ phase = "init"
    /\ LET s == TouchInit[ip] IN
        /\ \/ /\ pins' = pins \o PinEvents(s)
              /\ UNCHANGED fault
           \/ /\ CanRaise(s)
              /\ pins' = pins
              /\ fault' = ip
        /\ busLog' = busLog \o BusEvents(s)
        /\ ip' = ip + 1
        /\ phase' = IF ip = Len(TouchInit) THEN "ready" ELSE "init"
        /\ UNCHANGED <<calls, exc, regs, periphVars, termVars>>

\* One statement of __init__.  There is no try/except around lines 157-172:
\* an exception leaves __init__ at the statement that raised, and CYD()
\* returns no object.  A write that is NACKed was still put on the bus.
InitStep ==
    /\ phase = "init"
    /\ LET s == TouchInit[ip] IN
        \/ /\ pins' = pins \o PinEvents(s)
           /\ busLog' = busLog \o BusEvents(s)
           /\ ip' = ip + 1
           /\ phase' = IF ip = Len(TouchInit) THEN "ready" ELSE "init"
           /\ UNCHANGED <<calls, exc, fault, regs, periphVars, termVars>>
        \/ /\ CanRaise(s)
           /\ busLog' = busLog \o BusEvents(s)
           /\ phase' = "raised"
           /\ exc' = RaisedBy(s)
           /\ fault' = ip
           /\ UNCHANGED <<ip, pins, calls, regs, periphVars, termVars>>

-----------------------------------------------------------------------------
(* struct.unpack as touches() uses it, lines 237 and 239. *)

\* '>BHH' and '>BHHHH': a byte-order character followed by the field codes.
FMT_SINGLE == <<">", "B", "H", "H">>
FMT_MULTI == <<">", "B", "H", "H", "H", "H">>

\* Standard sizes (a byte-order prefix switches native alignment off).
CodeSize(c) == IF c = "B" THEN 1 ELSE 2

RECURSIVE CalcSizeOf(_)
CalcSizeOf(codes) ==
    IF codes = <<>> THEN 0 ELSE CodeSize(Head(codes)) + CalcSizeOf(Tail(codes))

CalcSize(fmt) == CalcSizeOf(Tail(fmt))

RECURSIVE BigEndian(_)
BigEndian(b) ==
    IF b = <<>> THEN 0 ELSE 256 * BigEndian(SubSeq(b, 1, Len(b) - 1)) + b[Len(b)]

RECURSIVE LittleEndian(_)
LittleEndian(b) ==
    IF b = <<>> THEN 0 ELSE b[1] + 256 * LittleEndian(Tail(b))

FromBytesSwapped(order, b) == IF order = ">" THEN LittleEndian(b) ELSE BigEndian(b)

FromBytes(order, b) == IF order = ">" THEN BigEndian(b) ELSE LittleEndian(b)

RECURSIVE UnpackFrom(_, _, _, _)
UnpackFrom(order, codes, data, off) ==
    IF codes = <<>> THEN <<>>
    ELSE LET n == CodeSize(Head(codes)) IN
         <<FromBytes(order, SubSeq(data, off, off + n - 1))>>
             \o UnpackFrom(order, Tail(codes), data, off + n)

\* MicroPython's unpack raises ValueError("buffer too small") on a short
\* buffer and reads only the leading CalcSize(fmt) bytes of a longer one.
Unpack(fmt, data) ==
    IF Len(data) < CalcSize(fmt)
    THEN [exc |-> "ValueError", val |-> <<>>]
    ELSE [exc |-> "none", val |-> UnpackFrom(fmt[1], Tail(fmt), data, 1)]

-----------------------------------------------------------------------------
(* touches(), lines 222-240. *)

ReadLenAlwaysMulti(multitouch) == MULTI_LEN

ReadLenAlwaysSingle(multitouch) == SINGLE_LEN

\* Third argument of readfrom_mem in the branch `multitouch is False` selects.
ReadLen(multitouch) == IF multitouch = FALSE THEN SINGLE_LEN ELSE MULTI_LEN

Format(multitouch) == IF multitouch = FALSE THEN FMT_SINGLE ELSE FMT_MULTI

ReadTxn(multitouch) == Txn("read", TOUCH_ADDR, TOUCH_REG, <<>>, ReadLen(multitouch))

\* readfrom_mem(0x15, 0x02, n) on a controller holding r: the first n of
\* its registers from 0x02 on, or OSError.
BusError == [ok |-> FALSE, data |-> <<>>]
ReadFromMem(r, n) == [ok |-> TRUE, data |-> SubSeq(r, 1, n)]

TouchesReturnSwapped(multitouch, v) ==
    IF multitouch = FALSE THEN <<v[1], v[2], v[3]>>
    ELSE <<v[1], v[2], v[3], v[5], v[4]>>

\* `points, x1, y1 = ...; return points, x1, y1` and the five-name form.
TouchesReturn(multitouch, v) ==
    IF multitouch = FALSE THEN <<v[1], v[2], v[3]>>
    ELSE <<v[1], v[2], v[3], v[4], v[5]>>

\* touches() remembering its last report and answering "no fingers" when the
\* new report repeats it.
TouchesResultDebounced(multitouch, reply) ==
    IF reply.ok
    THEN LET u == Unpack(Format(multitouch), reply.data)
             r == [exc |-> "none", val |-> TouchesReturn(multitouch, u.val)] IN
         IF u.exc # "none" THEN u
         ELSE IF calls # <<>> /\ calls[Len(calls)].ret = r
              THEN [exc |-> "none", val |-> [i \in DOMAIN r.val |-> 0]]
              ELSE r
    ELSE [exc |-> "OSError", val |-> <<>>]

\* What the call hands back: the tuple, or the exception that leaves it.
TouchesResult(multitouch, reply) ==
    IF reply.ok
    THEN LET u == Unpack(Format(multitouch), reply.data) IN
         IF u.exc = "none"
         THEN [exc |-> "none", val |-> TouchesReturn(multitouch, u.val)]
         ELSE u
    ELSE [exc |-> "OSError", val |-> <<>>]

\* touches() reading a second time when the first read failed.
TouchesCallRetry(multitouch, reply) ==
    /\ busLog' = busLog \o (IF reply.ok THEN <<ReadTxn(multitouch)>>
                            ELSE <<ReadTxn(multitouch), ReadTxn(multitouch)>>)
    /\ calls' = Append(calls, [multitouch |-> multitouch, reply |-> reply,
                               ret |-> TouchesResult(multitouch, reply)])
    /\ UNCHANGED <<phase, ip, pins, exc, fault, periphVars, termVars>>

\* One call of touches(multitouch) whose bus read gets `reply`.
TouchesCall(multitouch, reply) ==
    /\ busLog' = Append(busLog, ReadTxn(multitouch))
    /\ calls' = Append(calls, [multitouch |-> multitouch, reply |-> reply,
                               ret |-> TouchesResult(multitouch, reply)])
    /\ UNCHANGED <<phase, ip, pins, exc, fault, periphVars, termVars>>

\* Register contents the controller may present.
ScenarioRegs == { <<1, 0, 100, 0, 200, 0, 0, 0, 0>>,
                  <<2, 0, 10, 0, 20, 0, 30, 0, 40>> }

WireRegs ==
    { [i \in 1..MULTI_LEN |-> IF i = 1 THEN f ELSE IF i % 2 = 0 THEN hi ELSE lo] :
        f \in FingerBytes, hi \in WireVals, lo \in WireVals } \cup ScenarioRegs

AllRegs ==
    { [i \in 1..MULTI_LEN |-> IF i = 1 THEN f ELSE t[i - 1]] :
        f \in FingerBytes, t \in [1..(MULTI_LEN - 1) -> ByteVals] } \cup ScenarioRegs

\* touches() on a handle; the controller has refreshed its registers since
\* the last call, and the read either returns them or fails on the bus.
Touches ==
    /\ phase = "ready"
    /\ Len(calls) < MaxPolls
    /\ \E multitouch \in BOOLEAN :
        \/ \E r \in WireRegs :
            /\ regs' = r
            /\ TouchesCall(multitouch, ReadFromMem(r, ReadLen(multitouch)))
        \/ /\ regs' = regs
           /\ TouchesCall(multitouch, BusError)

Next == InitStep \/ Touches

Spec == Init /\ [][Next]_vars

-----------------------------------------------------------------------------
(* The decoder alone: a handle whose __init__ has returned, a controller   *)
(* holding any register contents, and reads that succeed.                  *)

RECURSIVE PinsAfter(_)
PinsAfter(k) == IF k = 0 THEN <<>> ELSE PinsAfter(k - 1) \o PinEvents(TouchInit[k])

RECURSIVE BusAfter(_)
BusAfter(k) == IF k = 0 THEN <<>> ELSE BusAfter(k - 1) \o BusEvents(TouchInit[k])

InitDecode ==
    /\ phase = "ready"
    /\ ip = Len(TouchInit) + 1
    /\ pins = PinsAfter(Len(TouchInit))
    /\ busLog = BusAfter(Len(TouchInit))
    /\ calls = <<>>
    /\ exc = "none"
    /\ fault = 0
    /\ regs \in AllRegs
    /\ PeriphDefault
    /\ TermFresh

TouchesDecode ==
    /\ phase = "ready"
    /\ Len(calls) < MaxPolls
    /\ \E multitouch \in BOOLEAN :
        /\ regs' = regs
        /\ TouchesCall(multitouch, ReadFromMem(regs, ReadLen(multitouch)))

NextDecode == TouchesDecode

SpecDecode == InitDecode /\ [][NextDecode]_vars

\* The states InitDecode starts from are the ones __init__ returns in.
ReadyIsInitDecode ==
    (phase = "ready" /\ calls = <<>>) =>
        /\ ip = Len(TouchInit) + 1
        /\ pins = PinsAfter(Len(TouchInit))
        /\ busLog = BusAfter(Len(TouchInit))
        /\ exc = "none" /\ fault = 0

-----------------------------------------------------------------------------
(* The peripheral methods of a constructed handle: SD card, RGB LED,       *)
(* speaker, terminal and shutdown (lines 245-268, 314-361, 421-463).       *)

\* Largest number of method calls in one behaviour of SpecPeriph.
MaxOps == 3

\* Default of the speaker_gain parameter of __init__.
SPEAKER_GAIN == 512

\* Arguments the callers pass.
ColorVals == {0, 255}
ToneFreqs == {220, 440}
ToneDurations == {500}
ToneGains == {0, 256}

FxCall(op, a) == [op |-> op, a |-> a]

Called(op, e) == [op |-> op, exc |-> e, from |-> Len(fx) + 1, n |-> last.n + 1]

Min2(a, b) == IF a < b THEN a ELSE b
Max2(a, b) == IF a > b THEN a ELSE b

\* mount_sd with the `if self._sd_ready == True` test left out.
MountSdRunUnguarded(ok) ==
    [mounted |-> IF ok THEN TRUE ELSE sd_mounted,
     fx |-> <<FxCall("os.mount", IF ok THEN 1 ELSE 0)>>]

\* mount_sd, lines 343-349: os.mount is called only under _sd_ready; when it
\* raises, the bare except prints and the assignment is skipped.
MountSdRun(ok) ==
    [mounted |-> IF sd_ready = TRUE /\ ok THEN TRUE ELSE sd_mounted,
     fx |-> IF sd_ready = TRUE THEN <<FxCall("os.mount", IF ok THEN 1 ELSE 0)>> ELSE <<>>]

\* unmount_sd, lines 355-361.
UnmountSdRun(ok) ==
    [mounted |-> IF sd_mounted = TRUE /\ ok THEN FALSE ELSE sd_mounted,
     fx |-> IF sd_mounted = TRUE THEN <<FxCall("os.unmount", IF ok THEN 1 ELSE 0)>> ELSE <<>>]

MountSd ==
    /\ last.n < MaxOps
    /\ \E ok \in BOOLEAN :
        LET r == MountSdRun(ok) IN
        /\ sd_mounted' = r.mounted
        /\ fx' = fx \o r.fx
    /\ last' = Called("mount_sd", "none")
    /\ UNCHANGED <<touchVars, rgb_pmw, sd_ready, attrs, led, dupterm, termVars>>

UnmountSd ==
    /\ last.n < MaxOps
    /\ \E ok \in BOOLEAN :
        LET r == UnmountSdRun(ok) IN
        /\ sd_mounted' = r.mounted
        /\ fx' = fx \o r.fx
    /\ last' = Called("unmount_sd", "none")
    /\ UNCHANGED <<touchVars, rgb_pmw, sd_ready, attrs, led, dupterm, termVars>>

\* _remap, lines 274-277, as the fraction num/den with den = in_span.
Remap(value, in_min, in_max, out_min, out_max) ==
    [num |-> out_min * (in_max - in_min) + (value - in_min) * (out_max - out_min),
     den |-> in_max - in_min]

\* int(min(max(q, 0), 1023)) of a fraction q with a positive denominator.
ClampDuty(q) ==
    IF q.num <= 0 THEN 0
    ELSE IF q.num >= 1023 * q.den THEN 1023
    ELSE q.num \div q.den

\* 1 if min(max(c, 0), 1) == 0 else 0
StaticLevel(c) == IF Min2(Max2(c, 0), 1) = 0 THEN 1 ELSE 0

\* A call self.rgb(*args), lines 245-268: rgb takes the one argument color.
RgbRun(args) ==
    IF Len(args) # 1
    THEN [exc |-> "TypeError", led |-> led, fx |-> <<>>]
    ELSE LET color == args[1] IN
         IF rgb_pmw = FALSE
         THEN LET v == [i \in 1..3 |-> StaticLevel(color[i])] IN
              [exc |-> "none", led |-> v,
               fx |-> <<FxCall("RGBr.value", v[1]), FxCall("RGBg.value", v[2]),
                        FxCall("RGBb.value", v[3])>>]
         ELSE LET d == [i \in 1..3 |-> ClampDuty(Remap(color[i], 0, 255, 1023, 0))] IN
              [exc |-> "none", led |-> d,
               fx |-> <<FxCall("RGBr.duty", d[1]), FxCall("RGBg.duty", d[2]),
                        FxCall("RGBb.duty", d[3])>>]

Rgb ==
    /\ last.n < MaxOps
    /\ \E color \in [1..3 -> ColorVals] :
        LET r == RgbRun(<<color>>) IN
        /\ led' = r.led
        /\ fx' = fx \o r.fx
        /\ last' = Called("rgb", r.exc)
    /\ UNCHANGED <<touchVars, rgb_pmw, sd_ready, sd_mounted, attrs, dupterm, termVars>>

\* play_tone, lines 323-328.  Reading an attribute the handle does not have
\* raises AttributeError at that statement.
PlayToneRun(freq, duration, gain) ==
    IF "speaker_pwm" \notin attrs
    THEN [exc |-> "AttributeError", fx |-> <<>>]
    ELSE IF gain = 0 /\ "speaker_gain" \notin attrs
    THEN [exc |-> "AttributeError", fx |-> <<FxCall("speaker_pwm.freq", freq)>>]
    ELSE [exc |-> "none",
          fx |-> <<FxCall("speaker_pwm.freq", freq),
                   FxCall("speaker_pwm.duty", IF gain = 0 THEN SPEAKER_GAIN ELSE gain),
                   FxCall("time.sleep_ms", duration),
                   FxCall("speaker_pwm.duty", 0)>>]

PlayTone ==
    /\ last.n < MaxOps
    /\ \E freq \in ToneFreqs, duration \in ToneDurations, gain \in ToneGains :
        LET r == PlayToneRun(freq, duration, gain) IN
        /\ fx' = fx \o r.fx
        /\ last' = Called("play_tone", r.exc)
    /\ UNCHANGED <<touchVars, rgb_pmw, sd_ready, sd_mounted, attrs, led, dupterm, termVars>>

\* close_terminal, lines 432-433: display.clear(self.BLACK), os.dupterm(None).
CloseTerminalFx == <<FxCall("display.clear", 0), FxCall("os.dupterm", 0)>>

\* open_terminal, lines 425-426: Terminal(self.display) clears the display
\* and starts with no lines; os.dupterm(self._terminal).
OpenTerminal ==
    /\ last.n < MaxOps
    /\ attrs' = attrs \cup {"_terminal"}
    /\ frame_buf' = <<>>
    /\ text' = <<>>
    /\ dupterm' = "terminal"
    /\ fx' = fx \o <<FxCall("display.clear", 0), FxCall("os.dupterm", 1)>>
    /\ last' = Called("open_terminal", "none")
    /\ UNCHANGED <<touchVars, rgb_pmw, sd_ready, sd_mounted, led, wr>>

CloseTerminal ==
    /\ last.n < MaxOps
    /\ dupterm' = "none"
    /\ fx' = fx \o CloseTerminalFx
    /\ last' = Called("close_terminal", "none")
    /\ UNCHANGED <<touchVars, rgb_pmw, sd_ready, sd_mounted, attrs, led, termVars>>

\* The RGB part of shutdown, lines 454-459: the three pins set to 1, or the
\* call self.rgb(0,0,0).
ShutdownLed ==
    IF rgb_pmw = FALSE
    THEN [exc |-> "none", led |-> <<1, 1, 1>>,
          fx |-> <<FxCall("RGBr.value", 1), FxCall("RGBg.value", 1), FxCall("RGBb.value", 1)>>]
    ELSE RgbRun(<<0, 0, 0>>)

\* shutdown, lines 447-463: unmount_sd(), the RGB part, close_terminal().  An
\* exception in the RGB part leaves shutdown before close_terminal.
Shutdown ==
    /\ last.n < MaxOps
    /\ \E ok \in BOOLEAN :
        LET u == UnmountSdRun(ok)
            l == ShutdownLed IN
        /\ sd_mounted' = u.mounted
        /\ led' = l.led
        /\ dupterm' = IF l.exc = "none" THEN "none" ELSE dupterm
        /\ fx' = fx \o u.fx \o l.fx \o (IF l.exc = "none" THEN CloseTerminalFx ELSE <<>>)
        /\ last' = Called("shutdown", l.exc)
    /\ UNCHANGED <<touchVars, rgb_pmw, sd_ready, attrs, termVars>>

\* A handle returned by CYD(rgb_pmw=..., sd_enabled=...) whose touch section
\* ran without a fault.
InitPeriph ==
    /\ phase = "ready"
    /\ ip = Len(TouchInit) + 1
    /\ pins = PinsAfter(Len(TouchInit))
    /\ busLog = BusAfter(Len(TouchInit))
    /\ calls = <<>>
    /\ exc = "none"
    /\ fault = 0
    /\ regs = PowerOnRegs
    /\ \E pmw \in BOOLEAN, sd_enabled \in BOOLEAN, sdcard_ok \in BOOLEAN :
        Constructed(pmw, sd_enabled, sdcard_ok)
    /\ TermFresh

NextPeriph ==
    \/ MountSd
    \/ UnmountSd
    \/ Rgb
    \/ PlayTone
    \/ OpenTerminal
    \/ CloseTerminal
    \/ Shutdown

SpecPeriph == InitPeriph /\ [][NextPeriph]_vars

-----------------------------------------------------------------------------
(* Terminal.write and Terminal._new_line, lines 482-515. *)

\* Largest number of write() calls in one behaviour of SpecTerm.
MaxWrites == 3

DROP_LIMIT == 40            \* if len(self.frame_buf) > 40
WRAP_AT == 29               \* if len(self.text) > 29
MAX_LINES == 32             \* if len(self.frame_buf) > 32

CR == 13
LF == 10
LETTER == 97

\* chr() on the bytes written here; a string is a sequence of characters.
Chr(b) == CASE b = CR -> "\r" [] b = LF -> "\n" [] OTHER -> "a"

\* _new_line that drops no line.
NewLineNoPop(fb, t) == [frame_buf |-> Append(fb, t), text |-> <<>>]

\* _new_line, lines 512-515: append, pop(0) when more than 32, clear text.
NewLine(fb, t) ==
    LET a == Append(fb, t) IN
    [frame_buf |-> IF Len(a) > MAX_LINES THEN Tail(a) ELSE a, text |-> <<>>]

\* One pass of the loop body for the byte at index i (1-based), lines 488-496.
\* After '\r\n' the code's extra i += 1 steps over the '\n': st.skip says so.
WriteByte(buf, i, st) ==
    IF st.exc # "none" THEN st
    ELSE IF st.skip THEN [st EXCEPT !.skip = FALSE, !.seen = i]
    ELSE LET c == Chr(buf[i]) IN
         IF c = "\r" /\ ~(i + 1 <= Len(buf))
         THEN [st EXCEPT !.exc = "IndexError"]       \* buf[i+1] is past the end
         ELSE LET crlf == c = "\r" /\ Chr(buf[i + 1]) = "\n"
                  a == IF crlf THEN NewLine(st.frame_buf, st.text)
                       ELSE [frame_buf |-> st.frame_buf, text |-> Append(st.text, c)]
                  wrap == Len(a.text) > WRAP_AT
                  w == IF wrap THEN NewLine(a.frame_buf, a.text) ELSE a IN
              [frame_buf |-> w.frame_buf, text |-> w.text, exc |-> "none",
               skip |-> crlf, seen |-> i,
               lines |-> st.lines + (IF crlf THEN 1 ELSE 0) + (IF wrap THEN 1 ELSE 0)]

\* The while loop, lines 487-496, over the bytes lo..hi in order.
RECURSIVE WriteLoop(_, _, _, _)
WriteLoop(buf, lo, hi, st) ==
    IF lo > hi THEN st
    ELSE IF lo = hi THEN WriteByte(buf, lo, st)
    ELSE LET mid == (lo + hi) \div 2
             done == WriteLoop(buf, lo, mid, st) IN
         IF done.exc # "none" THEN done ELSE WriteLoop(buf, mid + 1, hi, done)

\* Buffers handed to write().
RECURSIVE Letters(_)
Letters(n) == IF n = 0 THEN <<>> ELSE <<LETTER>> \o Letters(n - 1)

RECURSIVE ShortLines(_)
ShortLines(n) ==
    IF n = 0 THEN <<>> ELSE ShortLines(n - 1) \o Letters(n % 4) \o <<CR, LF>>

WriteBufs ==
    { <<>>, <<LETTER>>, <<CR, LF>>, <<CR>>, <<CR, LETTER>>, <<LETTER, CR, LF>>,
      Letters(29), Letters(30), Letters(31), ShortLines(5), ShortLines(32), ShortLines(33) }

\* write(buf), lines 483-498.  show() only draws.
Write ==
    /\ wr.n < MaxWrites
    /\ \E buf \in WriteBufs :
        IF Len(frame_buf) > DROP_LIMIT
        THEN /\ wr' = [n |-> wr.n + 1, len |-> Len(buf), ret |-> Len(buf), exc |-> "none",
                       seen |-> 0, lines |-> 0, dropped |-> TRUE]
             /\ UNCHANGED <<frame_buf, text>>
        ELSE LET r == WriteLoop(buf, 1, Len(buf),
                                [frame_buf |-> frame_buf, text |-> text, exc |-> "none",
                                 skip |-> FALSE, seen |-> 0, lines |-> 0]) IN
             /\ frame_buf' = r.frame_buf
             /\ text' = r.text
             /\ wr' = [n |-> wr.n + 1, len |-> Len(buf),
                       ret |-> IF r.exc = "none" THEN Len(buf) ELSE -1,
                       exc |-> r.exc, seen |-> r.seen, lines |-> r.lines,
                       dropped |-> FALSE]
    /\ UNCHANGED <<touchVars, periphVars>>

\* The peripheral state of a default handle right after open_terminal().
TerminalOpened ==
    /\ rgb_pmw = FALSE
    /\ sd_ready = FALSE
    /\ sd_mounted = FALSE
    /\ attrs = InitAttrs(FALSE) \cup {"_terminal"}
    /\ led = InitLed(FALSE)
    /\ dupterm = "terminal"
    /\ fx = <<FxCall("display.clear", 0), FxCall("os.dupterm", 1)>>
    /\ last = [op |-> "open_terminal", exc |-> "none", from |-> 1, n |-> 1]
    /\ TermFresh

\* A default handle on which open_terminal() has been called.
InitTerm ==
    /\ phase = "ready"
    /\ ip = Len(TouchInit) + 1
    /\ pins = PinsAfter(Len(TouchInit))
    /\ busLog = BusAfter(Len(TouchInit))
    /\ calls = <<>>
    /\ exc = "none"
    /\ fault = 0
    /\ regs = PowerOnRegs
    /\ TerminalOpened

NextTerm == Write

SpecTerm == InitTerm /\ [][NextTerm]_vars

-----------------------------------------------------------------------------
(* Properties *)

ReadsIn(log) == {i \in DOMAIN log : log[i].op = "read"}
WritesIn(log) == {i \in DOMAIN log : log[i].op = "write"}

\* C1: over one initialization followed by any polls, the bus sees exactly
\* one write, it is write(0x15, 0xFE, [0xFF]), it comes before every read,
\* and no poll issues a write.
OneSleepDisableWrite ==
    /\ WritesIn(busLog) \subseteq {1}
    /\ busLog # <<>> =>
         busLog[1] = [op |-> "write", addr |-> 21, reg |-> 254, data |-> <<255>>, n |-> 1]
    /\ phase = "ready" => WritesIn(busLog) = {1}
    /\ Cardinality(ReadsIn(busLog)) = Len(busLog) - Cardinality(WritesIn(busLog))

WitnessC1 ==
    /\ phase = "ready"
    /\ Len(calls) = 2
    /\ calls[1].multitouch # calls[2].multitouch
    /\ Len(busLog) = 3
    /\ busLog[1].op = "write"

\* The level/hold steps of the reset sequence: line, level, least hold in ms.
ResetSteps ==
    << <<"int", 1, 1>>, <<"int", 0, 1>>, <<"rst", 0, 10>>, <<"rst", 1, 300>> >>

FollowsResetSteps(tr) ==
    /\ Len(tr) <= 2 * Len(ResetSteps)
    /\ \A i \in DOMAIN tr :
        LET e == ResetSteps[(i + 1) \div 2] IN
        IF i % 2 = 1
        THEN tr[i] = [ev |-> "level", pin |-> e[1], v |-> e[2]]
        ELSE tr[i].ev = "sleep" /\ tr[i].v >= e[3]

ResetDone(tr) == Len(tr) = 2 * Len(ResetSteps) /\ FollowsResetSteps(tr)

\* C2: the reset sequence is exactly interrupt high held >= 1 ms, interrupt
\* low held >= 1 ms, reset low held >= 10 ms, reset high held >= 300 ms, in
\* this order, with no other level change on either line.
ResetTraceExact ==
    /\ FollowsResetSteps(pins)
    /\ phase = "ready" => ResetDone(pins)

WitnessC2 ==
    /\ phase = "ready"
    /\ Len(pins) = 8
    /\ pins[7] = [ev |-> "level", pin |-> "rst", v |-> 1]
    /\ pins[8].v = 300

\* C3: the reset sequence runs once and is complete (reset line high, 300 ms
\* elapsed) before the sleep-disable write; the bus is silent before and
\* during it, and the two lines are not driven again once it is over.
ResetOnceBeforeWrite ==
    /\ [](busLog # <<>> => ResetDone(pins))
    /\ [](Cardinality({i \in DOMAIN pins : pins[i].ev = "level"}) <= 4)
    /\ [][(busLog # <<>> \/ calls # <<>>) => pins' = pins]_vars

WitnessC3 ==
    /\ calls # <<>>
    /\ ResetDone(pins)
    /\ busLog[1].op = "write"
    /\ Len(busLog) > 1

\* The report the wire format defines for the bytes b (0-based b[0..]: count,
\* then big-endian 16-bit x1, y1 and, in multitouch mode, x2, y2).
WireReport(multitouch, b) ==
    IF multitouch
    THEN <<b[1], 256 * b[2] + b[3], 256 * b[4] + b[5],
                 256 * b[6] + b[7], 256 * b[8] + b[9]>>
    ELSE <<b[1], 256 * b[2] + b[3], 256 * b[4] + b[5]>>

\* C4: a 5-byte buffer read in single-touch mode with count byte in {0,1,2}
\* gives finger_count = b[0] and the one point (256*b[1]+b[2], 256*b[3]+b[4]);
\* [0x01,0x00,0x64,0x00,0xC8] gives 1 and (100, 200).
SingleTouchDecode ==
    \A i \in DOMAIN calls :
        LET c == calls[i]
            b == c.reply.data IN
        (~c.multitouch /\ c.reply.ok /\ Len(b) = 5 /\ b[1] \in {0, 1, 2}) =>
            /\ c.ret.exc = "none"
            /\ Len(c.ret.val) = 3
            /\ c.ret.val[1] = b[1]
            /\ c.ret.val[2] = 256 * b[2] + b[3]
            /\ c.ret.val[3] = 256 * b[4] + b[5]
            /\ b = <<1, 0, 100, 0, 200>> => c.ret.val = <<1, 100, 200>>

WitnessC4 ==
    \E i \in DOMAIN calls :
        /\ ~calls[i].multitouch
        /\ calls[i].reply.data = <<1, 0, 100, 0, 200>>
        /\ calls[i].ret.val = <<1, 100, 200>>

\* C5: a 9-byte buffer read in multitouch mode with count byte in {0,1,2}
\* gives finger_count = b[0], first point (256*b[1]+b[2], 256*b[3]+b[4]) and
\* second point (256*b[5]+b[6], 256*b[7]+b[8]);
\* [0x02,0x00,0x0A,0x00,0x14,0x00,0x1E,0x00,0x28] gives 2, (10,20), (30,40).
MultiTouchDecode ==
    \A i \in DOMAIN calls :
        LET c == calls[i]
            b == c.reply.data IN
        (c.multitouch /\ c.reply.ok /\ Len(b) = 9 /\ b[1] \in {0, 1, 2}) =>
            /\ c.ret.exc = "none"
            /\ c.ret.val = <<b[1], 256 * b[2] + b[3], 256 * b[4] + b[5],
                                   256 * b[6] + b[7], 256 * b[8] + b[9]>>
            /\ b = <<2, 0, 10, 0, 20, 0, 30, 0, 40>> => c.ret.val = <<2, 10, 20, 30, 40>>

WitnessC5 ==
    \E i \in DOMAIN calls :
        /\ calls[i].multitouch
        /\ calls[i].reply.data = <<2, 0, 10, 0, 20, 0, 30, 0, 40>>
        /\ calls[i].ret.val = <<2, 10, 20, 30, 40>>

\* C6: in either mode a finger-count byte outside 0..2 makes the poll fail
\* with an invalid-finger-count error and return no report, so every report
\* returned has finger_count in {0,1,2}.
InvalidFingerCountRejected ==
    \A i \in DOMAIN calls :
        LET c == calls[i] IN
        /\ (c.reply.ok /\ c.reply.data[1] \notin {0, 1, 2}) =>
              (c.ret.exc # "none" /\ c.ret.val = <<>>)
        /\ c.ret.exc = "none" => c.ret.val[1] \in {0, 1, 2}

PollReadsItsModeLength ==
    \A i \in DOMAIN calls :
        /\ i + 1 \in DOMAIN busLog
        /\ busLog[i + 1] = [op |-> "read", addr |-> 21, reg |-> 2, data |-> <<>>,
                            n |-> IF calls[i].multitouch THEN 9 ELSE 5]

WitnessC8 ==
    /\ Len(calls) = 2
    /\ calls[1].multitouch /\ busLog[2].n = 9
    /\ ~calls[2].multitouch /\ busLog[3].n = 5

\* C9: when a step of initialization fails (a pin level cannot be set, or the
\* sleep-disable write gets a bus error), __init__ stops at that step with the
\* error raised to the caller: nothing later runs, the step is not tried
\* again, no handle exists and no poll is ever issued.
InitFailureAborts ==
    /\ [](fault # 0 =>
            /\ phase = "raised"
            /\ exc # "none"
            /\ ip = fault
            /\ calls = <<>>
            /\ ReadsIn(busLog) = {}
            /\ Len(busLog) <= 1
            /\ ~ResetDone(pins) => busLog = <<>>)
    /\ [](calls # <<>> => (fault = 0 /\ busLog[1].op = "write"))
    /\ [][fault # 0 => UNCHANGED <<phase, pins, busLog, calls>>]_vars

WitnessC9 ==
    /\ phase = "raised"
    /\ exc = "PinError"
    /\ Len(pins) = 6
    /\ pins[5] = [ev |-> "level", pin |-> "rst", v |-> 0]
    /\ busLog = <<>>

\* The other failure C9 names: the sleep-disable write itself gets a bus error.
WitnessC9Bus ==
    /\ phase = "raised"
    /\ exc = "OSError"
    /\ ResetDone(pins)
    /\ Len(busLog) = 1

\* C10: each poll performs exactly one bus read, without cache or retry; a
\* bus error reaches the caller for that call only, and a later poll on a
\* healthy bus returns the report decoded from the bytes it read itself.
OneLiveReadPerPoll ==
    /\ Cardinality(ReadsIn(busLog)) = Len(calls)
    /\ \A i \in DOMAIN calls :
        LET c == calls[i] IN
        IF c.reply.ok
        THEN c.ret = [exc |-> "none", val |-> WireReport(c.multitouch, c.reply.data)]
        ELSE c.ret = [exc |-> "OSError", val |-> <<>>]

WitnessC10 ==
    /\ Len(calls) = 2
    /\ ~calls[1].reply.ok
    /\ calls[1].ret.exc = "OSError"
    /\ calls[2].reply.ok
    /\ calls[2].reply.data[2] = 255
    /\ calls[2].ret.exc = "none"
    /\ calls[2].ret.val[2] >= 65280

LastFx == SubSeq(fx, last.from, Len(fx))

LedOps == {"RGBr.value", "RGBg.value", "RGBb.value", "RGBr.duty", "RGBg.duty", "RGBb.duty"}

\* What a completed shutdown must have done, given whether the card was
\* mounted when it was called: unmount, LED off, display cleared, dupterm
\* detached, in this order and without an exception.
ShutdownDone(wasMounted, f, l, e, d) ==
    LET k == IF wasMounted THEN 1 ELSE 0 IN
    /\ e = "none"
    /\ Len(f) = k + 5
    /\ wasMounted => f[1].op = "os.unmount"
    /\ \A i \in 1..3 : f[k + i].op \in LedOps
    /\ l \in {<<1, 1, 1>>, <<1023, 1023, 1023>>}
    /\ f[k + 4] = [op |-> "display.clear", a |-> 0]
    /\ f[k + 5] = [op |-> "os.dupterm", a |-> 0]
    /\ d = "none"

\* C12: shutdown() runs to completion in both RGB modes: it unmounts the SD
\* card if mounted, turns the RGB LED off and then closes the terminal, in
\* that order.
ShutdownCompletes ==
    [][(last'.n = last.n + 1 /\ last'.op = "shutdown") =>
        ShutdownDone(sd_mounted = TRUE, SubSeq(fx', last'.from, Len(fx')),
                     led', last'.exc, dupterm')]_vars

\* The same for handles in static RGB mode only, where it holds.
ShutdownCompletesStatic ==
    [][(last'.n = last.n + 1 /\ last'.op = "shutdown" /\ rgb_pmw = FALSE) =>
        ShutdownDone(sd_mounted = TRUE, SubSeq(fx', last'.from, Len(fx')),
                     led', last'.exc, dupterm')]_vars

\* C13: on a handle built with default arguments, play_tone sets the
\* frequency, turns the speaker on with duty gain (speaker_gain when gain is
\* 0), waits the duration and sets the duty to 0, so the speaker is off when
\* the call returns.
PlayToneDrivesSpeaker ==
    (last.op = "play_tone" /\ rgb_pmw = FALSE /\ ~sd_ready) =>
        /\ last.exc = "none"
        /\ Len(LastFx) = 4
        /\ LastFx[1].op = "speaker_pwm.freq" /\ LastFx[1].a \in {220, 440}
        /\ LastFx[2].op = "speaker_pwm.duty" /\ LastFx[2].a \in {512, 256}
        /\ LastFx[3] = [op |-> "time.sleep_ms", a |-> 500]
        /\ LastFx[4] = [op |-> "speaker_pwm.duty", a |-> 0]

\* C14: _sd_mounted is True only if _sd_ready is True; os.mount is called
\* only when _sd_ready is True and os.unmount only when _sd_mounted is True;
\* a failed mount or unmount leaves both flags as they were.
SdFlagsConsistent ==
    /\ [](sd_mounted = TRUE => sd_ready = TRUE)
    /\ [][\A i \in (Len(fx) + 1)..Len(fx') :
            /\ fx'[i].op = "os.mount" => sd_ready = TRUE
            /\ fx'[i].op = "os.unmount" => sd_mounted = TRUE
            /\ (fx'[i].op \in {"os.mount", "os.unmount"} /\ fx'[i].a = 0) =>
                  (sd_ready' = sd_ready /\ sd_mounted' = sd_mounted)]_vars

WitnessC14 ==
    /\ sd_ready = TRUE
    /\ sd_mounted = TRUE
    /\ fx = << [op |-> "os.mount", a |-> 0], [op |-> "os.mount", a |-> 1],
               [op |-> "os.unmount", a |-> 0] >>
    /\ last.op = "shutdown"

\* C15: after any writes frame_buf holds at most 32 lines (the oldest is
\* dropped first when a 33rd is appended), every stored line has at most 30
\* characters and the pending text at most 29; so the guard
\* len(frame_buf) > 40 is never true, and every completed write has processed
\* all bytes of its buffer and returned len(buf).
TerminalBounded ==
    /\ [](/\ Len(frame_buf) <= 32
          /\ \A i \in DOMAIN frame_buf : Len(frame_buf[i]) <= 30
          /\ Len(text) <= 29
          /\ ~(Len(frame_buf) > 40)
          /\ ~wr.dropped
          /\ wr.exc = "none" => (wr.seen = wr.len /\ wr.ret = wr.len))
    /\ [][wr'.n = wr.n + 1 =>
            LET gone == Len(frame_buf) + wr'.lines - Len(frame_buf') IN
            /\ gone = (IF Len(frame_buf) + wr'.lines > 32
                       THEN Len(frame_buf) + wr'.lines - 32 ELSE 0)
            /\ \A j \in 1..(Len(frame_buf) - gone) : frame_buf'[j] = frame_buf[j + gone]]_vars

\* ShortLines(33) filled the buffer and dropped its first line; the 31 letters
\* written next wrapped at 30, which dropped the then-oldest line.
WitnessC15 ==
    /\ wr.n = 2
    /\ wr.exc = "none"
    /\ wr.len = 31
    /\ wr.ret = 31
    /\ wr.lines = 1
    /\ Len(frame_buf) = 32
    /\ Len(frame_buf[32]) = 30
    /\ frame_buf[1] = <<"a", "a", "a">>
    /\ text = <<"a">>

=============================================================================
